---------------------------- MODULE Spec2Model ----------------------------
(***************************************************************************)
(* Model of the BLE console driver (src/drivers/monocle_ble.c): the ring   *)
(* buffers, the SoftDevice event handler SWI2_IRQHandler, the transmit     *)
(* flush ble_flush_tx and the byte-stream facade ble_rfcomm_rx/tx; and of  *)
(* the battery gauge (src/port/driver/battery.c).                          *)
(*                                                                         *)
(* Specifications:                                                         *)
(*   SpecRing  one ring_buf_t driven by ring_push / ring_pop under the     *)
(*             caller discipline (push only when not full, pop only when   *)
(*             not empty), with numbered bytes and any start position.     *)
(*   SpecConn  the interrupt handler alone, the foreground idle, with the  *)
(*             connect and disconnect events recorded.                     *)
(*   SpecTx    the transmit side: ble_rfcomm_tx and ble_flush_tx in the    *)
(*             foreground, interleaved with the handler's events.          *)
(*   SpecStream  the transmit side with the frames the peer receives and   *)
(*             the bytes a refused frame loses recorded.                   *)
(*   SpecRx    the receive side: ble_rfcomm_rx and                         *)
(*             ble_rfcomm_is_rx_pending in the foreground, interleaved     *)
(*             with the peer's writes.                                     *)
(*   SpecDriver  every facade function and every event of the handler,    *)
(*             for a few bytes in each direction.                          *)
(*   SpecDriverLive  SpecDriver with the foreground running (fairness).    *)
(*   SpecSpin  ble_rfcomm_tx alone with the foreground running (fairness). *)
(*   SpecBattery  battery_timer_handler and battery_get_percent.           *)
(*   SpecMean  battery_travelling_mean fed with chosen values.             *)
(*   SpecPercent  battery_voltage_to_percent applied to a chosen voltage.  *)
(*   Spec      the driver: the foreground (a program counter walking       *)
(*             through ble_flush_tx, ble_rfcomm_rx, ble_rfcomm_tx) and the *)
(*             interrupt handler, which runs to completion between any two *)
(*             foreground steps (it has the higher priority).              *)
(***************************************************************************)
EXTENDS Integers, Sequences, FiniteSets, TLC

(***************************************************************************)
(* Sizes.  The storage array of a ring is RING_BUFFER_LENGTH bytes; the    *)
(* source uses 1024 + 45, the model a small array so that wrap-around and  *)
(* the full condition are reached within a few steps.                      *)
(***************************************************************************)
RING_BUFFER_LENGTH == 16

MAX_MTU_LENGTH == 128

BLE_CONN_HANDLE_INVALID == 65535

UINT16 == 65536

UINT8 == 256

\* Pushes the ring specification makes before the ring is emptied again.
MaxPush == 17

Min(a, b) == IF a < b THEN a ELSE b

(***************************************************************************)
(* ring_buf_t and its four operations.  head and tail are uint16_t.        *)
(***************************************************************************)
RingIndex == 0 .. RING_BUFFER_LENGTH - 1

EmptyRing(start) ==
    [buffer |-> [i \in RingIndex |-> 0], head |-> start, tail |-> start]

ring_full_early(ring) ==
    \* bug: compares before wrapping the index
    (ring.tail + 1) % UINT16 = ring.head

ring_full(ring) ==
    LET next0 == (ring.tail + 1) % UINT16
        next  == IF next0 = RING_BUFFER_LENGTH THEN 0 ELSE next0
    IN  next = ring.head

ring_empty(ring) == ring.head = ring.tail

ring_push(ring, byte) ==
    LET t1 == (ring.tail + 1) % UINT16
    IN  [ring EXCEPT !.buffer[ring.tail] = byte,
                     !.tail = IF t1 = RING_BUFFER_LENGTH THEN 0 ELSE t1]

ring_peek_newest(ring) ==
    \* bug: reads the slot before tail (the newest byte) instead of head
    ring.buffer[(ring.tail + RING_BUFFER_LENGTH - 1) % RING_BUFFER_LENGTH]

\* the byte ring_pop returns
ring_peek(ring) == ring.buffer[ring.head]

ring_pop_stuck(ring) ==
    \* bug: head is not advanced
    ring

\* the ring ring_pop leaves
ring_pop(ring) ==
    LET h1 == (ring.head + 1) % UINT16
    IN  [ring EXCEPT !.head = IF h1 = RING_BUFFER_LENGTH THEN 0 ELSE h1]

\* the bytes a ring holds, oldest first (head up to tail, wrapping)
RingCount(ring) ==
    (ring.tail + RING_BUFFER_LENGTH - ring.head) % RING_BUFFER_LENGTH

RingContents(ring) ==
    [i \in 1 .. RingCount(ring) |->
        ring.buffer[(ring.head + i - 1) % RING_BUFFER_LENGTH]]

(***************************************************************************)
(* Values exchanged with the SoftDevice.                                   *)
(***************************************************************************)
\* Connection handles the radio hands out: 0..MaxConnHandle.
MaxConnHandle == 1

ConnHandles == 0 .. MaxConnHandle

\* client_rx_mtu is a 16-bit field the peer fills in; ATT asks for >= 23,
\* the handler does not check it.  2 and 3 are the values around the
\* protocol overhead, 4 gives a one-byte payload, 8 a five-byte payload,
\* 64 and 512 are ordinary.
ClientMtus == {2, 3, 4, 8, 64, 512}

\* The peers of the transmit specification: one handle, and the client
\* MTUs that give a payload of 0, of 5 and of more than the ring holds.
TxConnHandles == {0}

TxClientMtus == {3, 8, 64}

\* Bytes one characteristic write carries: 1..MaxWriteLen.
MaxWriteLen == 2

\* Bytes one ble_rfcomm_tx call is given: 1..MaxSz.
MaxSz == 2

\* Data bytes are numbered: the k-th byte a ring accepts is k % TagMod.
\* The driver never looks at a byte's value, so numbered bytes show every
\* reordering, loss and duplication; a ring holds fewer than TagMod bytes.
TagMod == 2 * RING_BUFFER_LENGTH

\* NRF_ERROR_RESOURCES answers one flush call gets before the radio has room.
MaxRetry == 1

\* Connect / disconnect events recorded in hist.
MaxHist == 4

\* Bytes ble_rfcomm_tx is given in all while the frames are recorded.
MaxWritten == 6

VARIABLES
    ring,            \* SpecRing: the ring under test
    pushed,          \* SpecRing: bytes pushed since the ring was last empty
    popped,          \* SpecRing: bytes ring_pop returned since then
    rx,              \* receive ring
    tx,              \* transmit ring
    connection,      \* ble_handles.connection
    advertising,     \* radio: the advertising set is running
    negotiated_mtu,  \* static uint16_t negotiated_mtu
    pc,              \* foreground: where it stands
    ret,             \* foreground: where ble_flush_tx returns to
    sz,              \* ble_rfcomm_tx: bytes left to push
    out_buffer,      \* ble_flush_tx: the frame, out_len = Len(out_buffer)
    err,             \* ble_flush_tx: last answer of sd_ble_gatts_hvx
    retval,          \* the last value a facade call returned, and by whom
    evt_latch,       \* an interrupt ran since sd_app_evt_wait last returned
    halted,          \* an NRFX_ASSERT failed
    hist,            \* history: handles set by connect (h) / disconnect (INVALID)
    client_mtu,      \* history: client_rx_mtu last answered on this link, -1 none
    tx_written,      \* history: number of the next byte ble_rfcomm_tx pushes
    rx_written,      \* history: number of the next byte the rx ring accepts
    fl_pre,          \* history: contents of tx when the flush call started
    fl_mtu,          \* history: negotiated_mtu when the flush call started
    fl_subs,         \* history: the flush call's sends, <<frame, answer>> each
    fl_state,        \* history: "none", "running", "nothing", "returned", "fatal"
    burst,           \* history: frame lengths of back-to-back flush calls
    delivered,       \* history: bytes of the frames the radio accepted
    discarded,       \* history: bytes of the frames the radio refused
    write_len,       \* history: write.len of the last write event
    last_evt,        \* history: the event the handler processed last
    battery_percent,        \* static uint8_t battery_percent
    battery_timer_counter,  \* static uint8_t battery_timer_counter
    mean,            \* battery_travelling_mean: static mean, ADC counts n / d
    count,           \* battery_travelling_mean: static count
    calls,           \* history: calls of battery_timer_handler
    voltage          \* SpecPercent: the voltage under test, in millivolts

ringVars == <<ring, pushed, popped>>

bleVars == <<rx, tx, connection, advertising, negotiated_mtu>>

fgVars == <<pc, ret, sz, out_buffer, err, retval>>

flVars == <<fl_pre, fl_mtu, fl_subs, fl_state>>

histVars == <<hist, client_mtu, tx_written, rx_written>>

peerVars == <<delivered, discarded, write_len>>

batVars == <<battery_percent, battery_timer_counter, mean, count, calls,
             voltage>>

vars == <<ring, pushed, popped, rx, tx, connection, advertising,
          negotiated_mtu, pc, ret, sz, out_buffer, err, retval, evt_latch,
          halted, hist, client_mtu, tx_written, rx_written, fl_pre, fl_mtu,
          fl_subs, fl_state, burst, delivered, discarded, write_len,
          last_evt,
          battery_percent,
          battery_timer_counter, mean, count, calls, voltage>>

NoBurst == [m |-> -1, lens |-> <<>>]

\* hist when the connection events are not recorded
NoHist == <<-1>>

\* last_evt when the events are not recorded
NoEvt == "not recorded"

\* delivered when the accepted frames are not recorded
NoDelivered == <<-1>>

(***************************************************************************)
(* State of battery.c at boot: the statics are zero.                       *)
(***************************************************************************)
InitBattery ==
    /\ battery_percent = 0
    /\ battery_timer_counter = 0
    /\ mean = [n |-> 0, d |-> 1]
    /\ count = 0
    /\ calls = 0
    /\ voltage = [n |-> 0, d |-> 1]

(***************************************************************************)
(* State after ble_init: statics are zero, ble_handles as initialised,     *)
(* advertising started.                                                    *)
(***************************************************************************)
InitDriver ==
    /\ rx = EmptyRing(0)
    /\ tx = EmptyRing(0)
    /\ connection = BLE_CONN_HANDLE_INVALID
    /\ advertising = TRUE
    /\ negotiated_mtu = 0
    /\ pc = "idle"
    /\ ret = "idle"
    /\ sz = 0
    /\ out_buffer = <<>>
    /\ err = "NRF_SUCCESS"
    /\ retval = [fn |-> "none", val |-> 0]
    /\ evt_latch = FALSE
    /\ halted = FALSE
    /\ client_mtu = -1
    /\ tx_written = 0
    /\ rx_written = 0
    /\ fl_pre = <<>>
    /\ fl_mtu = 0
    /\ fl_subs = <<>>
    /\ fl_state = "none"
    /\ burst = NoBurst
    /\ discarded = <<>>
    /\ write_len = 0
    /\ InitBattery

(***************************************************************************)
(* SpecRing                                                                *)
(***************************************************************************)
InitRing ==
    /\ \E start \in RingIndex : ring = EmptyRing(start)
    /\ pushed = <<>>
    /\ popped = <<>>
    /\ hist = NoHist
    /\ last_evt = NoEvt
    /\ delivered = NoDelivered
    /\ InitDriver

RingPush ==
    /\ ~ring_full(ring)
    /\ ring_empty(ring) \/ Len(pushed) < MaxPush
    /\ LET byte == tx_written
       IN  /\ ring' = ring_push(ring, byte)
           /\ IF ring_empty(ring)
                THEN pushed' = <<byte>> /\ popped' = <<>>
                ELSE pushed' = Append(pushed, byte) /\ popped' = popped
    /\ tx_written' = (tx_written + 1) % TagMod
    /\ UNCHANGED <<peerVars, batVars, last_evt>>
    /\ UNCHANGED <<bleVars, fgVars, flVars, evt_latch, halted, hist,
                   client_mtu, rx_written, burst>>

RingPop ==
    /\ ~ring_empty(ring)
    /\ ring' = ring_pop(ring)
    /\ popped' = Append(popped, ring_peek(ring))
    /\ UNCHANGED <<peerVars, batVars, last_evt>>
    /\ UNCHANGED <<pushed, bleVars, fgVars, flVars, evt_latch, halted, hist,
                   client_mtu, tx_written, rx_written, burst>>

NextRing == RingPush \/ RingPop

SpecRing == InitRing /\ [][NextRing]_vars

(***************************************************************************)
(* C1  Ring buffer FIFO: from an empty ring at any position, after k       *)
(* pushes (k <= capacity-1, each made when not full) the ring is not       *)
(* empty, the pops return the pushed bytes in push order, and the ring is  *)
(* empty exactly when every pushed byte has been popped.                   *)
(***************************************************************************)
C1_RingFifo ==
    /\ Len(popped) <= Len(pushed)
    /\ popped = SubSeq(pushed, 1, Len(popped))
    /\ RingContents(ring) = SubSeq(pushed, Len(popped) + 1, Len(pushed))
    /\ ring_empty(ring) <=> (Len(popped) = Len(pushed))

\* capacity-1 bytes pushed and popped again, the pushes having wrapped past
\* the end of the storage array
C1_Witness ==
    /\ Len(pushed) = RING_BUFFER_LENGTH - 1
    /\ popped = pushed
    /\ ring_empty(ring)
    /\ ring.head = 1
    /\ \E i \in 1 .. Len(pushed) : pushed[i] # pushed[1]

(***************************************************************************)
(* C2  ring_full is true iff the ring holds exactly capacity-1 bytes,      *)
(* ring_empty iff it holds none, and it never holds more than capacity-1.  *)
(***************************************************************************)
C2_FullIffCapacityMinusOne ==
    LET held == Len(pushed) - Len(popped)
    IN  /\ ring_full(ring) <=> (held = RING_BUFFER_LENGTH - 1)
        /\ ring_empty(ring) <=> (held = 0)
        /\ held <= RING_BUFFER_LENGTH - 1

\* a full ring whose tail sits on the last slot (the full check wraps)
C2_Witness ==
    /\ ring_full(ring)
    /\ ring.tail = RING_BUFFER_LENGTH - 1
    /\ Len(pushed) - Len(popped) = RING_BUFFER_LENGTH - 1

(***************************************************************************)
(* The foreground.  One action per step between two points where the      *)
(* interrupt handler can run.                                              *)
(***************************************************************************)
\* the outcome of a finished flush call is dead once the caller goes on
FlushForgotten ==
    /\ err' = "NRF_SUCCESS"
    /\ fl_state' = "none"

\* the frame and the record of the call are dead once flush returns
FlushLeft ==
    /\ out_buffer' = <<>>
    /\ fl_pre' = <<>>
    /\ fl_mtu' = 0
    /\ fl_subs' = <<>>

\* the application calls ble_flush_tx
CallFlush ==
    /\ ~halted /\ pc = "idle"
    /\ pc' = "fl_check" /\ ret' = "idle"
    /\ FlushForgotten
    /\ UNCHANGED <<peerVars, batVars, last_evt>>
    /\ UNCHANGED <<ringVars, bleVars, sz, out_buffer, retval, evt_latch,
                   halted, histVars, fl_pre, fl_mtu, fl_subs, burst>>

\* the application calls ble_rfcomm_rx
CallRx ==
    /\ ~halted /\ pc = "idle"
    /\ pc' = "rx_loop"
    /\ burst' = NoBurst
    /\ FlushForgotten
    /\ UNCHANGED <<peerVars, batVars, last_evt>>
    /\ UNCHANGED <<ringVars, bleVars, ret, sz, out_buffer, retval,
                   evt_latch, halted, histVars, fl_pre, fl_mtu, fl_subs>>

\* the application calls ble_rfcomm_tx(buf, n)
CallTx ==
    /\ ~halted /\ pc = "idle"
    /\ \E n \in 1 .. MaxSz :
         /\ delivered = NoDelivered \/ tx_written + n <= MaxWritten
         /\ sz' = n
    /\ pc' = "tx_loop"
    /\ burst' = NoBurst
    /\ FlushForgotten
    /\ UNCHANGED <<peerVars, batVars, last_evt>>
    /\ UNCHANGED <<ringVars, bleVars, ret, out_buffer, retval, evt_latch,
                   halted, histVars, fl_pre, fl_mtu, fl_subs>>

\* the application calls ble_rfcomm_is_rx_pending
CallIsRxPending ==
    /\ ~halted /\ pc = "idle"
    /\ pc' = "pending"
    /\ UNCHANGED <<peerVars, batVars, last_evt>>
    /\ UNCHANGED <<ringVars, bleVars, ret, sz, out_buffer, err, retval,
                   evt_latch, halted, histVars, flVars, burst>>

RxPendingWhenWaiting == ~ring_empty(rx)

\* line 187: the value returned
RxPending == ring_empty(rx)

\* ble_rfcomm_is_rx_pending
IsRxPending ==
    /\ ~halted /\ pc = "pending"
    /\ retval' = [fn  |-> "ble_rfcomm_is_rx_pending",
                  val |-> IF RxPending THEN 1 ELSE 0]
    /\ pc' = "idle"
    /\ UNCHANGED <<peerVars, batVars, last_evt>>
    /\ UNCHANGED <<ringVars, bleVars, ret, sz, out_buffer, err,
                   evt_latch, halted, histVars, flVars, burst>>

\* a burst starts with a flush call on a connected link whose MTU was
\* exchanged and whose transmit ring holds 2 * negotiated_mtu + 5 bytes
BurstStarts ==
    /\ ret = "idle"
    /\ burst = NoBurst
    /\ connection # BLE_CONN_HANDLE_INVALID
    /\ client_mtu # -1
    /\ RingCount(tx) = 2 * negotiated_mtu + 5

NothingToSendNever(ring_) == FALSE

\* line 122
NothingToSend(ring_) == ring_empty(ring_)

\* ble_flush_tx, lines 118-123: empty frame, return when tx is empty
FlushCheck ==
    /\ ~halted /\ pc = "fl_check"
    /\ out_buffer' = <<>>
    /\ fl_subs' = <<>>
    /\ IF NothingToSend(tx)
         THEN /\ pc' = ret
              /\ fl_state' = "nothing"
              /\ fl_pre' = <<>>
              /\ fl_mtu' = 0
         ELSE /\ pc' = "fl_loop"
              /\ fl_state' = "running"
              /\ fl_pre' = RingContents(tx)
              /\ fl_mtu' = negotiated_mtu
    /\ burst' = IF BurstStarts THEN [m |-> negotiated_mtu, lens |-> <<>>]
                ELSE IF ring_empty(tx) THEN NoBurst ELSE burst
    /\ UNCHANGED <<peerVars, batVars, last_evt>>
    /\ UNCHANGED <<ringVars, bleVars, ret, sz, err, retval, evt_latch,
                   halted, histVars>>

LoopBreaksLate(len) == len > negotiated_mtu

\* line 132: break once the frame has reached negotiated_mtu
LoopBreaks(len) == len >= negotiated_mtu

\* ble_flush_tx, lines 126-134: one turn of the while loop
FlushLoop ==
    /\ ~halted /\ pc = "fl_loop"
    /\ out_buffer' = Append(out_buffer, ring_peek(tx))
    /\ tx' = ring_pop(tx)
    /\ pc' = IF LoopBreaks(Len(out_buffer')) \/ ring_empty(tx')
               THEN "fl_send" ELSE "fl_loop"
    /\ UNCHANGED <<peerVars, batVars, last_evt>>
    /\ UNCHANGED <<ringVars, rx, connection, advertising, negotiated_mtu,
                   ret, sz, err, retval, evt_latch, halted, histVars,
                   flVars, burst>>

\* what sd_ble_gatts_hvx can answer: without a link the handle is stale;
\* on a link the notification is queued, or the queue (one entry) is full,
\* or notifications are not enabled, or the call fails otherwise
HvxAnswers ==
    IF connection = BLE_CONN_HANDLE_INVALID
      THEN {"BLE_ERROR_INVALID_CONN_HANDLE"}
      ELSE {"NRF_SUCCESS", "NRF_ERROR_INVALID_STATE",
            "BLE_ERROR_GATTS_SYS_ATTR_MISSING"}
           \cup (IF Len(fl_subs) < MaxRetry
                   THEN {"NRF_ERROR_RESOURCES"} ELSE {})

\* line 149: the do-while repeats on this answer
Retried(e) == e = "NRF_ERROR_RESOURCES"

IgnoredOnlyInvalidState(e) == e = "NRF_ERROR_INVALID_STATE"

\* line 152: answers that make flush return without reaching the assertion
Ignored(e) ==
    e \in {"NRF_ERROR_INVALID_STATE", "BLE_ERROR_INVALID_CONN_HANDLE"}

\* ble_flush_tx, lines 143-157: one sd_ble_gatts_hvx call and what follows
Kept(frames, frame) ==
    IF delivered = NoDelivered THEN frames ELSE frames \o frame

FlushSend ==
    /\ ~halted /\ pc = "fl_send"
    /\ \E e \in HvxAnswers :
         /\ err' = e
         /\ IF Retried(e)
              THEN /\ pc' = pc /\ halted' = halted
                   /\ fl_state' = fl_state /\ burst' = burst
                   /\ fl_subs' = Append(fl_subs, <<out_buffer, e>>)
                   /\ UNCHANGED <<out_buffer, fl_pre, fl_mtu, delivered,
                                  discarded>>
              ELSE IF Ignored(e)
              THEN /\ pc' = ret /\ halted' = halted
                   /\ fl_state' = "returned" /\ burst' = NoBurst
                   /\ discarded' = Kept(discarded, out_buffer)
                   /\ delivered' = delivered
                   /\ FlushLeft
              ELSE IF e = "NRF_SUCCESS"    \* NRFX_ASSERT(!err) passes
              THEN /\ pc' = ret /\ halted' = halted
                   /\ fl_state' = "returned"
                   /\ burst' = IF burst = NoBurst THEN burst
                               ELSE [burst EXCEPT
                                       !.lens = Append(@, Len(out_buffer))]
                   /\ delivered' = Kept(delivered, out_buffer)
                   /\ discarded' = discarded
                   /\ FlushLeft
              ELSE /\ pc' = pc /\ halted' = TRUE
                   /\ fl_state' = "fatal" /\ burst' = NoBurst
                   /\ fl_subs' = Append(fl_subs, <<out_buffer, e>>)
                   /\ UNCHANGED <<out_buffer, fl_pre, fl_mtu, delivered,
                                  discarded>>
    /\ UNCHANGED <<write_len, batVars, last_evt>>
    /\ UNCHANGED <<ringVars, bleVars, ret, sz, retval, evt_latch,
                   histVars>>

\* ble_rfcomm_rx, line 161: flush while rx is empty, else start ring_pop
\* (line 101: read the byte, store head + 1).  head is not volatile: the
\* build stores head + 1 and then the wrapped value (split), or only the
\* wrapped value.
RxLoop ==
    /\ ~halted /\ pc = "rx_loop"
    /\ IF ring_empty(rx)
         THEN /\ pc' = "fl_check" /\ ret' = "rx_wait"
              /\ UNCHANGED <<rx, retval>>
         ELSE /\ retval' = [fn |-> "ble_rfcomm_rx", val |-> ring_peek(rx)]
              /\ \E split \in BOOLEAN :
                   rx' = IF split
                           THEN [rx EXCEPT !.head = (rx.head + 1) % UINT16]
                           ELSE ring_pop(rx)
              /\ pc' = "rx_pop"
              /\ ret' = ret
    /\ UNCHANGED <<peerVars, batVars, last_evt>>
    /\ UNCHANGED <<ringVars, tx, connection, advertising, negotiated_mtu,
                   sz, out_buffer, err, evt_latch, halted, histVars,
                   flVars, burst>>

\* ring_pop, lines 102-104: wrap head, return the byte
RxPop ==
    /\ ~halted /\ pc = "rx_pop"
    /\ rx' = [rx EXCEPT !.head = IF rx.head = RING_BUFFER_LENGTH
                                   THEN 0 ELSE rx.head]
    /\ pc' = "idle"
    /\ UNCHANGED <<peerVars, batVars, last_evt>>
    /\ UNCHANGED <<ringVars, tx, connection, advertising, negotiated_mtu,
                   ret, sz, out_buffer, err, retval, evt_latch, halted,
                   histVars, flVars, burst>>

\* ble_rfcomm_rx, line 167: nothing to do when both rings are empty
RxWait ==
    /\ ~halted /\ pc = "rx_wait"
    /\ pc' = IF ring_empty(tx) /\ ring_empty(rx) THEN "rx_sleep" ELSE "rx_loop"
    /\ FlushForgotten
    /\ UNCHANGED <<peerVars, batVars, last_evt>>
    /\ UNCHANGED <<ringVars, bleVars, ret, sz, out_buffer, retval,
                   evt_latch, halted, histVars, fl_pre, fl_mtu, fl_subs,
                   burst>>

RxSleepForgets ==
    \* bug: the wait drops an event that came before it and keeps waiting
    /\ ~halted /\ pc = "rx_sleep"
    /\ evt_latch
    /\ evt_latch' = FALSE
    /\ pc' = pc
    /\ UNCHANGED <<peerVars, batVars, last_evt>>
    /\ UNCHANGED <<ringVars, bleVars, ret, sz, out_buffer, err, retval,
                   halted, histVars, flVars, burst>>

\* sd_app_evt_wait returns once an interrupt has run since it last returned
RxSleep ==
    /\ ~halted /\ pc = "rx_sleep"
    /\ evt_latch
    /\ evt_latch' = FALSE
    /\ pc' = "rx_loop"
    /\ UNCHANGED <<peerVars, batVars, last_evt>>
    /\ UNCHANGED <<ringVars, bleVars, ret, sz, out_buffer, err, retval,
                   halted, histVars, flVars, burst>>

\* ble_rfcomm_tx, line 178: the for loop's test
TxLoop ==
    /\ ~halted /\ pc = "tx_loop"
    /\ pc' = IF sz > 0 THEN "tx_full" ELSE "idle"
    /\ UNCHANGED <<peerVars, batVars, last_evt>>
    /\ UNCHANGED <<ringVars, bleVars, ret, sz, out_buffer, err, retval,
                   evt_latch, halted, histVars, flVars, burst>>

\* ble_rfcomm_tx, lines 179-181: flush while tx is full, else push the byte
TxPush ==
    /\ ~halted /\ pc = "tx_full"
    /\ IF ring_full(tx)
         THEN /\ pc' = "fl_check" /\ ret' = "tx_full"
              /\ UNCHANGED <<tx, sz, tx_written, err, fl_state>>
         ELSE /\ tx' = ring_push(tx, tx_written)
              /\ tx_written' = (tx_written + 1) % TagMod
              /\ sz' = sz - 1
              /\ pc' = "tx_loop"
              /\ ret' = ret
              /\ FlushForgotten
    /\ UNCHANGED <<peerVars, batVars, last_evt>>
    /\ UNCHANGED <<ringVars, rx, connection, advertising, negotiated_mtu,
                   out_buffer, retval, evt_latch, halted, hist, client_mtu,
                   rx_written, fl_pre, fl_mtu, fl_subs, burst>>

(***************************************************************************)
(* SWI2_IRQHandler, one action per event it pulls from the queue.  The     *)
(* radio delivers link events only on a link, a connection only while the  *)
(* connectable advertising runs (which the connection ends), and any reply *)
(* the handler makes may be refused, which fails its NRFX_ASSERT.          *)
(***************************************************************************)
Connected == connection # BLE_CONN_HANDLE_INVALID

\* what last_evt becomes when the handler has processed the event e
Seen(e) == IF last_evt = NoEvt THEN last_evt ELSE e

Record(h) ==
    IF hist = NoHist \/ Len(hist) >= MaxHist THEN hist ELSE Append(hist, h)

HandleNotStored(h) == 0

\* line 476
HandleOnConnect(h) == h

\* line 494
HandleOnDisconnect == BLE_CONN_HANDLE_INVALID

AdvNotRestarted == advertising

\* line 497: sd_ble_gap_adv_start leaves the advertising set running
AdvAfterStart == TRUE

MtuNoOverhead(client) ==
    IF MAX_MTU_LENGTH < client THEN MAX_MTU_LENGTH ELSE client

\* lines 529-531, the result stored in a uint16_t
NegotiatedMtu(client) ==
    IF MAX_MTU_LENGTH < client
      THEN MAX_MTU_LENGTH - 3
      ELSE (client - 3) % UINT16

\* BLE_GAP_EVT_CONNECTED, the radio choosing the handle among handles
EvtConnectedFrom(handles) ==
    /\ ~halted /\ ~Connected /\ advertising
    /\ \E h \in handles, ok \in BOOLEAN :
         /\ connection' = HandleOnConnect(h)
         /\ hist' = Record(h)
         /\ halted' = ~ok       \* sd_ble_gap_conn_param_update refused
    /\ advertising' = FALSE
    /\ client_mtu' = -1
    /\ burst' = NoBurst
    /\ evt_latch' = TRUE
    /\ last_evt' = Seen("BLE_GAP_EVT_CONNECTED")
    /\ UNCHANGED <<peerVars, batVars>>
    /\ UNCHANGED <<ringVars, rx, tx, negotiated_mtu, fgVars, tx_written,
                   rx_written, flVars>>

EvtConnected == EvtConnectedFrom(ConnHandles)

\* BLE_GAP_EVT_DISCONNECTED; sd_ble_gap_adv_start is refused when the set
\* is already running
EvtDisconnected ==
    /\ ~halted /\ Connected
    /\ connection' = HandleOnDisconnect
    /\ advertising' = AdvAfterStart
    /\ halted' = advertising
    /\ hist' = Record(BLE_CONN_HANDLE_INVALID)
    /\ client_mtu' = -1
    /\ burst' = NoBurst
    /\ evt_latch' = TRUE
    /\ last_evt' = Seen("BLE_GAP_EVT_DISCONNECTED")
    /\ UNCHANGED <<peerVars, batVars>>
    /\ UNCHANGED <<ringVars, rx, tx, negotiated_mtu, fgVars, tx_written,
                   rx_written, flVars>>

\* BLE_GATTS_EVT_EXCHANGE_MTU_REQUEST, the peer's MTU among clients
EvtExchangeMtuRequestFrom(clients) ==
    /\ ~halted /\ Connected
    /\ \E client \in clients, ok \in BOOLEAN :
         /\ halted' = ~ok       \* sd_ble_gatts_exchange_mtu_reply refused
         /\ client_mtu' = IF ok THEN client ELSE client_mtu
         /\ negotiated_mtu' = IF ok THEN NegotiatedMtu(client)
                              ELSE negotiated_mtu
         /\ burst' = IF ok /\ NegotiatedMtu(client) = burst.m
                       THEN burst ELSE NoBurst
    /\ evt_latch' = TRUE
    /\ last_evt' = Seen("BLE_GATTS_EVT_EXCHANGE_MTU_REQUEST")
    /\ UNCHANGED <<peerVars, batVars>>
    /\ UNCHANGED <<ringVars, rx, tx, connection, advertising, fgVars, hist,
                   tx_written, rx_written, flVars>>

EvtExchangeMtuRequest == EvtExchangeMtuRequestFrom(ClientMtus)

\* lines 539-549: push the data until the ring is full
RECURSIVE PushWhileRoom(_, _)
PushWhileRoom(ring_, data) ==
    IF data = <<>> \/ ring_full(ring_)
      THEN ring_
      ELSE PushWhileRoom(ring_push(ring_, Head(data)), Tail(data))

\* BLE_GATTS_EVT_WRITE; the payload continues the numbering of the bytes
\* the ring has accepted
EvtWrite ==
    /\ ~halted /\ Connected
    /\ \E len \in 1 .. MaxWriteLen :
         /\ rx' = PushWhileRoom(rx,
                    [i \in 1 .. len |-> (rx_written + i - 1) % TagMod])
         /\ write_len' = len
    /\ LET pushes == (rx'.tail + RING_BUFFER_LENGTH - rx.tail)
                        % RING_BUFFER_LENGTH
       IN  rx_written' = (rx_written + pushes) % TagMod
    /\ evt_latch' = TRUE
    /\ last_evt' = Seen("BLE_GATTS_EVT_WRITE")
    /\ UNCHANGED <<delivered, discarded, batVars>>
    /\ UNCHANGED <<ringVars, tx, connection, advertising, negotiated_mtu,
                   fgVars, halted, hist, client_mtu, tx_written, flVars,
                   burst>>

\* an event the handler only answers; the answer may be refused
ReplyOnly ==
    /\ ~halted /\ Connected
    /\ \E ok \in BOOLEAN : halted' = ~ok
    /\ evt_latch' = TRUE
    /\ last_evt' = Seen("BLE_GATTS_EVT_SYS_ATTR_MISSING")
    /\ UNCHANGED <<peerVars, batVars>>
    /\ UNCHANGED <<ringVars, bleVars, fgVars, histVars, flVars, burst>>

AnsweredAndDropped(seen) ==
    \* bug: the case falls into the clearing of the handle
    /\ ~halted /\ Connected
    /\ \E ok \in BOOLEAN : halted' = ~ok
    /\ last_evt' = Seen(seen)
    /\ connection' = BLE_CONN_HANDLE_INVALID
    /\ evt_latch' = TRUE
    /\ UNCHANGED <<peerVars, batVars>>
    /\ UNCHANGED <<ringVars, rx, tx, advertising, negotiated_mtu, fgVars,
                   histVars, flVars, burst>>

\* an event the handler only answers, recorded in hist as seen
Answered(seen) ==
    /\ ~halted /\ Connected
    /\ \E ok \in BOOLEAN : halted' = ~ok
    /\ last_evt' = Seen(seen)
    /\ evt_latch' = TRUE
    /\ UNCHANGED <<peerVars, batVars>>
    /\ UNCHANGED <<ringVars, bleVars, fgVars, histVars, flVars, burst>>

\* BLE_GAP_EVT_PHY_UPDATE_REQUEST: sd_ble_gap_phy_update
EvtPhyUpdateRequest == Answered("BLE_GAP_EVT_PHY_UPDATE_REQUEST")

\* BLE_GATTC_EVT_TIMEOUT: asserts "not reached"
EvtGattcTimeout ==
    /\ ~halted /\ Connected
    /\ halted' = TRUE
    /\ evt_latch' = TRUE
    /\ last_evt' = Seen("BLE_GATTC_EVT_TIMEOUT")
    /\ UNCHANGED <<peerVars, batVars>>
    /\ UNCHANGED <<ringVars, bleVars, fgVars, histVars, flVars, burst>>

HandleClearedOnTimeout == BLE_CONN_HANDLE_INVALID

\* lines 565-571: the case asks the radio to disconnect and stores nothing
HandleOnGattsTimeout == connection

\* BLE_GATTS_EVT_TIMEOUT: sd_ble_gap_disconnect
EvtGattsTimeout ==
    /\ ~halted /\ Connected
    /\ \E ok \in BOOLEAN : halted' = ~ok
    /\ connection' = HandleOnGattsTimeout
    /\ last_evt' = Seen("BLE_GATTS_EVT_TIMEOUT")
    /\ evt_latch' = TRUE
    /\ UNCHANGED <<peerVars, batVars>>
    /\ UNCHANGED <<ringVars, rx, tx, advertising, negotiated_mtu, fgVars,
                   histVars, flVars, burst>>

\* BLE_GATTS_EVT_SYS_ATTR_MISSING: sd_ble_gatts_sys_attr_set
EvtSysAttrMissing == ReplyOnly

\* BLE_GAP_EVT_SEC_PARAMS_REQUEST: sd_ble_gap_sec_params_reply
EvtSecParamsRequest == Answered("BLE_GAP_EVT_SEC_PARAMS_REQUEST")

EvtUnusedSends ==
    \* bug: the handler sends a byte of the transmit ring
    /\ ~halted
    /\ last_evt' = Seen("default")
    /\ evt_latch' = TRUE
    /\ tx' = IF ring_empty(tx) THEN tx ELSE ring_pop(tx)
    /\ UNCHANGED <<peerVars, batVars>>
    /\ UNCHANGED <<ringVars, rx, connection, advertising, negotiated_mtu,
                   fgVars, halted, histVars, flVars, burst>>

\* default: any other event
EvtUnused ==
    /\ ~halted
    /\ last_evt' = Seen("default")
    /\ evt_latch' = TRUE
    /\ UNCHANGED <<peerVars, batVars>>
    /\ UNCHANGED <<ringVars, bleVars, fgVars, halted, histVars, flVars,
                   burst>>

SWI2_IRQHandler ==
    \/ EvtConnected
    \/ EvtDisconnected
    \/ EvtPhyUpdateRequest
    \/ EvtExchangeMtuRequest
    \/ EvtWrite
    \/ EvtGattcTimeout
    \/ EvtGattsTimeout
    \/ EvtSysAttrMissing
    \/ EvtSecParamsRequest
    \/ EvtUnused

(***************************************************************************)
(* The driver: the foreground and the handler interleaved.                 *)
(***************************************************************************)
Foreground ==
    \/ CallFlush
    \/ CallRx
    \/ CallTx
    \/ CallIsRxPending
    \/ IsRxPending
    \/ FlushCheck
    \/ FlushLoop
    \/ FlushSend
    \/ RxLoop
    \/ RxPop
    \/ RxWait
    \/ RxSleep
    \/ TxLoop
    \/ TxPush

Init ==
    /\ ring = EmptyRing(0)
    /\ pushed = <<>>
    /\ popped = <<>>
    /\ hist = NoHist
    /\ last_evt = NoEvt
    /\ delivered = NoDelivered
    /\ InitDriver

Next == Foreground \/ SWI2_IRQHandler

Spec == Init /\ [][Next]_vars

(***************************************************************************)
(* SpecConn: the handler alone (the foreground stays idle), with the       *)
(* connect and disconnect events recorded in hist.                         *)
(***************************************************************************)
InitConn ==
    /\ ring = EmptyRing(0)
    /\ pushed = <<>>
    /\ popped = <<>>
    /\ hist = <<>>
    /\ last_evt = "none"
    /\ delivered = NoDelivered
    /\ InitDriver

SpecConn == InitConn /\ [][SWI2_IRQHandler]_vars

(***************************************************************************)
(* SpecTx: the transmit side, ble_flush_tx and ble_rfcomm_tx called by the *)
(* application, interleaved with the handler.                              *)
(***************************************************************************)
NextTx ==
    \/ CallFlush
    \/ CallTx
    \/ FlushCheck
    \/ FlushLoop
    \/ FlushSend
    \/ TxLoop
    \/ TxPush
    \/ EvtConnectedFrom(TxConnHandles)
    \/ EvtDisconnected
    \/ EvtPhyUpdateRequest
    \/ EvtExchangeMtuRequestFrom(TxClientMtus)
    \/ EvtGattcTimeout
    \/ EvtGattsTimeout
    \/ EvtSysAttrMissing
    \/ EvtSecParamsRequest
    \/ EvtUnused

SpecTx == Init /\ [][NextTx]_vars

(***************************************************************************)
(* SpecStream: the transmit side with the fate of every frame recorded,    *)
(* for the first MaxWritten bytes ble_rfcomm_tx is given.                  *)
(***************************************************************************)
InitStream ==
    /\ ring = EmptyRing(0)
    /\ pushed = <<>>
    /\ popped = <<>>
    /\ hist = NoHist
    /\ last_evt = NoEvt
    /\ delivered = <<>>
    /\ InitDriver

NextStream ==
    \/ CallFlush
    \/ CallTx
    \/ FlushCheck
    \/ FlushLoop
    \/ FlushSend
    \/ TxLoop
    \/ TxPush
    \/ EvtConnectedFrom(TxConnHandles)
    \/ EvtDisconnected
    \/ EvtExchangeMtuRequestFrom(TxClientMtus)

SpecStream == InitStream /\ [][NextStream]_vars

(***************************************************************************)
(* SpecRx: the receive side: ble_rfcomm_rx and ble_rfcomm_is_rx_pending in *)
(* the foreground (nothing is ever written, so its flush calls find the    *)
(* transmit ring empty), interleaved with the handler's events.            *)
(***************************************************************************)
NextRx ==
    \/ CallRx
    \/ CallIsRxPending
    \/ IsRxPending
    \/ FlushCheck
    \/ RxLoop
    \/ RxPop
    \/ RxWait
    \/ RxSleep
    \/ EvtConnectedFrom(TxConnHandles)
    \/ EvtDisconnected
    \/ EvtWrite
    \/ EvtUnused

SpecRx == Init /\ [][NextRx]_vars

(***************************************************************************)
(* SpecDriver: every facade function and every event of the handler;       *)
(* ble_rfcomm_tx is called while fewer than MaxTxWritten bytes have been   *)
(* given to it, and the peer writes while the receive ring has accepted    *)
(* fewer than MaxRxWritten bytes.                                          *)
(***************************************************************************)
\* Bytes given to ble_rfcomm_tx after which it is not called again.
MaxTxWritten == 1

\* Bytes accepted from the peer after which it does not write again.
MaxRxWritten == 1

\* The peer's MTUs in the driver specification: 2, below the protocol
\* overhead of 3, and 8, a payload of 5.
DriverClientMtus == {2, 8}

CallTxFew ==
    /\ tx_written < MaxTxWritten
    /\ CallTx

EvtWriteFew ==
    /\ rx_written < MaxRxWritten
    /\ EvtWrite

ForegroundFew ==
    \/ CallFlush
    \/ CallRx
    \/ CallTxFew
    \/ CallIsRxPending
    \/ IsRxPending
    \/ FlushCheck
    \/ FlushLoop
    \/ FlushSend
    \/ RxLoop
    \/ RxPop
    \/ RxWait
    \/ RxSleep
    \/ TxLoop
    \/ TxPush

HandlerFew ==
    \/ EvtConnectedFrom(TxConnHandles)
    \/ EvtDisconnected
    \/ EvtPhyUpdateRequest
    \/ EvtExchangeMtuRequestFrom(DriverClientMtus)
    \/ EvtWriteFew
    \/ EvtGattcTimeout
    \/ EvtGattsTimeout
    \/ EvtSysAttrMissing
    \/ EvtSecParamsRequest
    \/ EvtUnused

NextDriver == ForegroundFew \/ HandlerFew

SpecDriver == Init /\ [][NextDriver]_vars

(***************************************************************************)
(* battery.c.  The source computes in float; the model computes with exact *)
(* fractions [n, d] (n / d, d > 0, in lowest terms), voltages in           *)
(* millivolts.  A float result can differ from the exact one only where    *)
(* the exact value is within rounding error of a comparison or of a        *)
(* rounding tie.                                                           *)
(***************************************************************************)
Abs(x) == IF x < 0 THEN -x ELSE x

RECURSIVE GCD(_, _)
GCD(a, b) == IF b = 0 THEN a ELSE GCD(b, a % b)

LCM(a, b) == (a \div GCD(a, b)) * b

\* n / d in lowest terms
Reduced(n, d) ==
    LET g == GCD(Abs(n), d)
    IN  IF n = 0 THEN [n |-> 0, d |-> 1] ELSE [n |-> n \div g, d |-> d \div g]

\* battery_discharge_curve[i], i = 0..10, in millivolts
battery_discharge_curve(i) ==
    <<3800, 3450, 3180, 3120, 3100, 3070, 3020, 2970, 2890, 2790, 2700>>[i + 1]

CurveIndex == 0 .. 10

\* round() of the non-negative a / b, b > 0: halves go up
Rounded(a, b) == (2 * a + b) \div (2 * b)

p0_shifted(i) == (11 - i) * 10

p0_rising(i) == i * 10

\* line 104: float p0 = (10 - i) * 10
p0(i) == (10 - i) * 10

AboveNever(v) == FALSE

\* line 93: voltage > battery_discharge_curve[0]
Above(v) == v.n > battery_discharge_curve(0) * v.d

\* line 99: the indices i with battery_discharge_curve[i] < voltage
Below(v) == {i \in CurveIndex : battery_discharge_curve(i) * v.d < v.n}

\* battery_voltage_to_percent of the voltage v.n / v.d millivolts
battery_voltage_to_percent(v) ==
    IF Above(v)
      THEN 100
      ELSE LET below == Below(v)
           IN  IF below = {}
                 THEN 0
                 ELSE LET i  == CHOOSE j \in below : \A k \in below : j <= k
                          v0 == battery_discharge_curve(i)
                          v1 == battery_discharge_curve(i - 1)
                      IN  Rounded(p0(i) * v.d * (v1 - v0)
                                     + 10 * (v.n - v0 * v.d),
                                  v.d * (v1 - v0)) % UINT8

\* battery_saadc_to_voltage: result / 2^10 * (1.8 / 4) / (1/4 * 1.25 / 4.5)
\* volts, which is result * 405 / 64 millivolts
battery_saadc_to_voltage(result) == Reduced(405 * result, 64)

CountStuck(c) == c

\* line 136: count = (count == 10) ? (10) : (count + 1)
CountAfter(c) == IF c = 10 THEN 10 ELSE c + 1

\* line 135: mean = (mean * count + new * 1) / (count + 1)
MeanAfter(m, c, new) ==
    LET l == LCM(m.d, new.d)
    IN  Reduced(m.n * c * (l \div m.d) + new.n * (l \div new.d),
                l * (c + 1))

\* Results the ADC gives (a signed 16-bit value of 10 significant bits):
\* below the curve, inside it (two), above it, and the two ends.
AdcResults == {-2, 1, 450, 600, 620, 1023}

\* Values fed to battery_travelling_mean on its own.
MeanInputs == {[n |-> 1, d |-> 1], [n |-> 5, d |-> 2], [n |-> 12, d |-> 1]}

\* Voltages battery_voltage_to_percent is applied to on its own: every
\* 5 mV from 2.6 V to 3.9 V.
Voltages == {[n |-> 2600 + 5 * k, d |-> 1] : k \in 0 .. 260}

\* Samples battery_timer_handler takes.
MaxBatterySamples == 3

\* Values fed to battery_travelling_mean on its own.
MaxMeanSamples == 11

SampleTakenAlways(counter) == TRUE

\* line 146: if (++battery_timer_counter != 0) return
SampleTaken(counter) == counter = 0

\* battery_timer_handler; a refused nrfx_saadc call fails the assertion
battery_timer_handler ==
    /\ ~halted
    /\ LET counter == (battery_timer_counter + 1) % UINT8
       IN  /\ battery_timer_counter' = counter
           /\ calls' = calls + 1
           /\ IF ~SampleTaken(counter)
                THEN UNCHANGED <<battery_percent, mean, count, halted>>
                ELSE /\ calls < UINT8 * MaxBatterySamples
                     /\ \E result \in AdcResults, ok \in BOOLEAN :
                          IF ~ok
                            THEN /\ halted' = TRUE
                                 /\ UNCHANGED <<battery_percent, mean, count>>
                            ELSE LET v_inst == battery_saadc_to_voltage(result)
                                     v_mean == MeanAfter(mean, count, v_inst)
                                 IN  /\ mean' = v_mean
                                     /\ count' = CountAfter(count)
                                     /\ battery_percent' =
                                          battery_voltage_to_percent(v_mean)
                                     /\ halted' = halted
    /\ UNCHANGED <<ringVars, bleVars, fgVars, evt_latch, histVars, flVars,
                   burst, peerVars, last_evt, voltage>>

CounterReturned == battery_timer_counter

\* line 119: return battery_percent
PercentReturned == battery_percent

\* battery_get_percent
battery_get_percent ==
    /\ ~halted
    /\ retval' = [fn |-> "battery_get_percent", val |-> PercentReturned]
    /\ UNCHANGED <<ringVars, bleVars, pc, ret, sz, out_buffer, err,
                   evt_latch, halted, histVars, flVars, burst, peerVars,
                   last_evt, batVars>>

NextBattery == battery_timer_handler \/ battery_get_percent

SpecBattery == Init /\ [][NextBattery]_vars

(***************************************************************************)
(* SpecMean: battery_travelling_mean called with chosen values.            *)
(***************************************************************************)
battery_travelling_mean ==
    /\ calls < MaxMeanSamples
    /\ \E new \in MeanInputs :
         /\ mean' = MeanAfter(mean, count, new)
         /\ voltage' = new
    /\ count' = CountAfter(count)
    /\ calls' = calls + 1
    /\ UNCHANGED <<ringVars, bleVars, fgVars, evt_latch, halted, histVars,
                   flVars, burst, peerVars, last_evt, battery_percent,
                   battery_timer_counter>>

SpecMean == Init /\ [][battery_travelling_mean]_vars

(***************************************************************************)
(* SpecPercent: battery_voltage_to_percent applied to a chosen voltage.    *)
(***************************************************************************)
InitPercent ==
    /\ ring = EmptyRing(0)
    /\ pushed = <<>>
    /\ popped = <<>>
    /\ hist = NoHist
    /\ last_evt = NoEvt
    /\ delivered = NoDelivered
    /\ rx = EmptyRing(0)
    /\ tx = EmptyRing(0)
    /\ connection = BLE_CONN_HANDLE_INVALID
    /\ advertising = TRUE
    /\ negotiated_mtu = 0
    /\ pc = "idle"
    /\ ret = "idle"
    /\ sz = 0
    /\ out_buffer = <<>>
    /\ err = "NRF_SUCCESS"
    /\ retval = [fn |-> "none", val |-> 0]
    /\ evt_latch = FALSE
    /\ halted = FALSE
    /\ client_mtu = -1
    /\ tx_written = 0
    /\ rx_written = 0
    /\ fl_pre = <<>>
    /\ fl_mtu = 0
    /\ fl_subs = <<>>
    /\ fl_state = "none"
    /\ burst = NoBurst
    /\ discarded = <<>>
    /\ write_len = 0
    /\ battery_percent = 0
    /\ battery_timer_counter = 0
    /\ mean = [n |-> 0, d |-> 1]
    /\ count = 0
    /\ calls = 0
    /\ voltage \in Voltages

VoltageToPercent ==
    /\ calls = 0
    /\ calls' = 1
    /\ battery_percent' = battery_voltage_to_percent(voltage)
    /\ UNCHANGED <<ringVars, bleVars, fgVars, evt_latch, halted, histVars,
                   flVars, burst, peerVars, last_evt, battery_timer_counter,
                   mean, count, voltage>>

SpecPercent == InitPercent /\ [][VoltageToPercent]_vars

(***************************************************************************)
(* C3  After ble_init, the events connect, disconnect, connect leave the   *)
(* driver connected with ble_handles.connection equal to the handle of the *)
(* last connect event, not BLE_CONN_HANDLE_INVALID; and in every state     *)
(* advertising runs only while the handle is BLE_CONN_HANDLE_INVALID.      *)
(***************************************************************************)
C3_ConnectDisconnectConnect ==
    /\ ( /\ Len(hist) = 3
         /\ hist[1] # BLE_CONN_HANDLE_INVALID
         /\ hist[2] = BLE_CONN_HANDLE_INVALID
         /\ hist[3] # BLE_CONN_HANDLE_INVALID )
       => (connection = hist[3] /\ connection # BLE_CONN_HANDLE_INVALID)
    /\ advertising => connection = BLE_CONN_HANDLE_INVALID

\* connect, disconnect, connect with two different handles
C3_Witness ==
    /\ Len(hist) = 3
    /\ hist[1] # BLE_CONN_HANDLE_INVALID
    /\ hist[2] = BLE_CONN_HANDLE_INVALID
    /\ hist[3] \notin {hist[1], BLE_CONN_HANDLE_INVALID}
    /\ connection = hist[3]
    /\ ~advertising
    /\ ~halted

C5_NegotiatedMtu ==
    client_mtu # -1 =>
      /\ negotiated_mtu = (Min(MAX_MTU_LENGTH, client_mtu) - 3) % UINT16
      /\ client_mtu = 64 => negotiated_mtu = 61
      /\ client_mtu = 512 => negotiated_mtu = 125

\* an exchange with a peer asking for 512 has been answered
C5_Witness ==
    /\ client_mtu = 512
    /\ negotiated_mtu = 125
    /\ Connected
    /\ ~halted

(***************************************************************************)
(* C6  Whenever no MTU exchange has completed on the current connection    *)
(* (at startup, after a disconnect, after a new connect), the frame limit  *)
(* flush uses is the payload of the default ATT MTU, 23 - 3 = 20 bytes.    *)
(***************************************************************************)
C6_DefaultFrameLimit ==
    client_mtu = -1 => negotiated_mtu = 23 - 3

(***************************************************************************)
(* C7  ble_flush_tx called with an empty transmit ring returns at once:    *)
(* it sends nothing and leaves both rings, the connection handle and       *)
(* negotiated_mtu as they were.                                            *)
(***************************************************************************)
C7_FlushEmptyNoSend ==
    [][ (~halted /\ pc = "fl_check" /\ ring_empty(tx) /\ pc' # pc)
        => /\ pc' = ret
           /\ fl_subs' = <<>>
           /\ UNCHANGED <<tx, rx, connection, advertising, negotiated_mtu,
                          retval, halted>> ]_vars

\* a flush call that found the transmit ring empty has returned
C7_Witness ==
    /\ fl_state = "nothing"
    /\ pc = "idle"
    /\ ring_empty(tx)
    /\ tx_written > 0

(***************************************************************************)
(* C8  On a connected link with negotiated_mtu = m set by an exchange,     *)
(* sends succeeding and the transmit ring holding 2 * m + 5 bytes, exactly *)
(* three flush calls empty the ring: frames of m, m and 5 bytes, the ring  *)
(* not empty after the first two.                                          *)
(***************************************************************************)
ThreeFlushesDrain ==
    LET n == Len(burst.lens)
    IN  /\ n >= 1 => burst.lens[1] = burst.m
        /\ n >= 2 => burst.lens[2] = burst.m
        /\ n >= 3 => burst.lens[3] = 5
        /\ (pc = "idle" /\ n < 3) => ~ring_empty(tx)
        /\ (pc = "idle" /\ n >= 3) => (n = 3 /\ ring_empty(tx))

C9_FlushRemovesMinKMtu ==
    pc = "fl_send" =>
      LET k == Len(fl_pre)
          n == Min(k, fl_mtu)
      IN  /\ out_buffer = SubSeq(fl_pre, 1, n)
          /\ RingContents(tx) = SubSeq(fl_pre, n + 1, k)
          /\ \A i \in 1 .. Len(fl_subs) : fl_subs[i][1] = out_buffer

(***************************************************************************)
(* C10  What ble_flush_tx does with the answer of sd_ble_gatts_hvx:        *)
(* NRF_ERROR_RESOURCES repeats the same send; NRF_SUCCESS,                 *)
(* NRF_ERROR_INVALID_STATE and BLE_ERROR_INVALID_CONN_HANDLE return        *)
(* to the caller without an error; any other answer fails the assertion.   *)
(* Nothing is handed back to the caller.                                   *)
(***************************************************************************)
C10_SendOutcomes ==
    [][ (~halted /\ pc = "fl_send"
           /\ <<pc, fl_subs, fl_state>>' # <<pc, fl_subs, fl_state>>)
        => /\ retval' = retval
           /\ tx' = tx
           /\ err' = "NRF_ERROR_RESOURCES"
                => (pc' = "fl_send" /\ out_buffer' = out_buffer /\ ~halted')
           /\ err' \in {"NRF_SUCCESS", "NRF_ERROR_INVALID_STATE",
                        "BLE_ERROR_INVALID_CONN_HANDLE"}
                => (pc' = ret /\ ~halted')
           /\ err' \notin {"NRF_SUCCESS", "NRF_ERROR_RESOURCES",
                           "NRF_ERROR_INVALID_STATE",
                           "BLE_ERROR_INVALID_CONN_HANDLE"}
                => halted' ]_vars

\* a send that raced a disconnect: the stale handle was refused, flush
\* returned and the driver runs on
C10_Witness ==
    /\ fl_state = "returned"
    /\ err = "BLE_ERROR_INVALID_CONN_HANDLE"
    /\ pc = "idle"
    /\ ~halted

(***************************************************************************)
(* C11  Transmit stream order.  Between flush calls, the bytes of the      *)
(* frames the radio accepted, followed by the bytes the transmit ring      *)
(* holds, are the bytes ble_rfcomm_tx was given, in order: nothing is      *)
(* duplicated, reordered or left out.                                      *)
(***************************************************************************)
Written == [i \in 1 .. tx_written |-> i - 1]

InFlush == pc \in {"fl_loop", "fl_send"}

\* as stated: every byte no longer in the ring was accepted
C11_TxFifo ==
    ~InFlush => delivered \o RingContents(tx) = Written

RECURSIVE Merged(_, _)
\* the two increasing sequences merged into one
Merged(a, b) ==
    IF a = <<>> THEN b
    ELSE IF b = <<>> THEN a
    ELSE IF Head(a) < Head(b)
      THEN <<Head(a)>> \o Merged(Tail(a), b)
      ELSE <<Head(b)>> \o Merged(a, Tail(b))

Increasing(a) == \A i \in 1 .. Len(a) - 1 : a[i] < a[i + 1]

\* amended: the accepted bytes are in order, and with the bytes of the
\* refused frames, the frame being sent and the ring they make up the
\* bytes written
C11_TxFifoButRefused ==
    /\ Increasing(delivered)
    /\ Increasing(discarded)
    /\ Merged(delivered, discarded) \o out_buffer \o RingContents(tx)
         = Written

\* frames were accepted after a frame was refused, and bytes are waiting
C11_Witness ==
    /\ Len(delivered) >= 2
    /\ discarded # <<>>
    /\ discarded[1] < delivered[1]
    /\ ~ring_empty(tx)
    /\ pc = "idle"
    /\ ~halted

(***************************************************************************)
(* C12  ble_rfcomm_rx returns only a byte the receive ring held: it starts *)
(* its ring_pop only on a non-empty ring, a call takes exactly one byte    *)
(* out of the ring, and the byte returned is the oldest accepted byte not  *)
(* yet returned (bytes are numbered in the order the ring accepted them),  *)
(* under every interleaving with write events.                             *)
(***************************************************************************)
C12_RxFifo ==
    [][ /\ (pc = "rx_loop" /\ pc' = "rx_pop") => ~ring_empty(rx)
        /\ (pc = "rx_pop" /\ pc' = "idle") =>
             retval'.val
               = (rx_written + TagMod - RingCount(rx') - 1) % TagMod
      ]_vars

(***************************************************************************)
(* C13  A write event carrying L bytes on a receive ring with F free slots *)
(* appends the first min(L, F) bytes of the payload in order and drops the *)
(* rest; the bytes the ring held stay as they were, and so do the          *)
(* connection handle, advertising, negotiated_mtu and the transmit ring.   *)
(***************************************************************************)
C13_WriteAppendsWhatFits ==
    [][ rx'.tail # rx.tail =>
          LET F == RING_BUFFER_LENGTH - 1 - RingCount(rx)
              k == Min(write_len', F)
          IN  /\ RingContents(rx') = RingContents(rx)
                    \o [i \in 1 .. k |-> (rx_written + i - 1) % TagMod]
              /\ UNCHANGED <<tx, connection, advertising, negotiated_mtu>>
      ]_vars

(***************************************************************************)
(* C14  ble_rfcomm_is_rx_pending does not block, changes no state of the   *)
(* driver and returns true exactly when the receive ring is empty, false   *)
(* when a byte is waiting.                                                 *)
(***************************************************************************)
C14_IsRxPendingMeansEmpty ==
    /\ [](pc = "pending" /\ ~halted => ENABLED IsRxPending)
    /\ [][ (pc = "pending" /\ pc' # "pending") =>
             /\ pc' = "idle"
             /\ retval'.fn = "ble_rfcomm_is_rx_pending"
             /\ retval'.val = 1 <=> ring_empty(rx)
             /\ retval'.val = 0 <=> ~ring_empty(rx)
             /\ UNCHANGED <<rx, tx, connection, advertising, negotiated_mtu,
                            evt_latch, halted>>
         ]_vars

\* it has answered false with bytes waiting
C14_Witness ==
    /\ retval = [fn |-> "ble_rfcomm_is_rx_pending", val |-> 0]
    /\ pc = "idle"
    /\ RingCount(rx) >= 2

(***************************************************************************)
(* C15  A GATT server timeout event on a link: once the handler has        *)
(* processed it, the driver is Disconnected (the connection handle is      *)
(* BLE_CONN_HANDLE_INVALID).                                               *)
(***************************************************************************)
\* as stated
C15_TimeoutDisconnects ==
    last_evt = "BLE_GATTS_EVT_TIMEOUT"
      => connection = BLE_CONN_HANDLE_INVALID

\* amended: the event leaves the handle of the link in place and the
\* device not advertising; it is the disconnect event that clears the
\* handle
C15_TimeoutKeepsHandle ==
    /\ last_evt = "BLE_GATTS_EVT_TIMEOUT" =>
         /\ connection # BLE_CONN_HANDLE_INVALID
         /\ hist # <<>> /\ Len(hist) < MaxHist => connection = hist[Len(hist)]
         /\ ~advertising
    /\ last_evt = "BLE_GAP_EVT_DISCONNECTED" =>
         (connection = BLE_CONN_HANDLE_INVALID /\ advertising)

\* a timeout event was answered on the link with handle 1
C15_Witness ==
    /\ last_evt = "BLE_GATTS_EVT_TIMEOUT"
    /\ hist = <<1>>
    /\ connection = 1
    /\ ~halted

(***************************************************************************)
(* C16  Security-parameters requests, PHY update requests and events the   *)
(* handler does not know change nothing: the connection handle,            *)
(* advertising, negotiated_mtu and both rings are after the event what they*)
(* were before it.                                                         *)
(***************************************************************************)
C16_RepliesChangeNothing ==
    [][ last_evt' \in {"BLE_GAP_EVT_SEC_PARAMS_REQUEST",
                       "BLE_GAP_EVT_PHY_UPDATE_REQUEST", "default"}
        => UNCHANGED <<connection, advertising, negotiated_mtu, rx, tx>>
      ]_vars

\* a PHY update request was answered on a link whose MTU was exchanged and
\* whose receive ring holds bytes
C16_Witness ==
    /\ last_evt = "BLE_GAP_EVT_PHY_UPDATE_REQUEST"
    /\ Connected
    /\ client_mtu = 64
    /\ ~ring_empty(rx)
    /\ ~halted


(***************************************************************************)
(* C17  Battery sampling is decimated by the 8-bit wrapping counter: the   *)
(* counter equals the number of calls of battery_timer_handler modulo 256, *)
(* so it wraps to 0 on the 256th call after boot and on every 256th call   *)
(* after it; a call on which the counter does not wrap changes nothing but *)
(* the counter; a call on which it wraps (and the ADC accepts the request) *)
(* takes one sample, blends it into the travelling mean and stores the     *)
(* percentage of the new mean in battery_percent.  So the number of        *)
(* samples taken is the number of calls divided by 256.                    *)
(***************************************************************************)
TimerCall == calls' = calls + 1

C17_SampleEvery256thCall ==
    /\ [](battery_timer_counter = calls % UINT8)
    /\ [](~halted => count = Min(calls \div UINT8, 10))
    /\ [][TimerCall =>
            /\ battery_timer_counter' = (battery_timer_counter + 1) % UINT8
            /\ battery_timer_counter' # 0 =>
                  UNCHANGED <<battery_percent, mean, count, halted, retval>>
            /\ (battery_timer_counter' = 0 /\ ~halted') =>
                  /\ count' = CountAfter(count)
                  /\ \E result \in AdcResults :
                        mean' = MeanAfter(mean, count,
                                          battery_saadc_to_voltage(result))
                  /\ battery_percent' = battery_voltage_to_percent(mean')]_vars

C17_Witness ==
    /\ calls = 2 * UINT8
    /\ battery_timer_counter = 0
    /\ count = 2
    /\ battery_percent = 16
    /\ ~halted


(***************************************************************************)
(* C18  Interpolation against the 11-point curve: 3.80 V gives 100 %, any  *)
(* voltage of 2.70 V or below gives 0 %, and 3.045 V, halfway between the  *)
(* curve points 3.02 V and 3.07 V, gives 55 %.                             *)
(* As stated the last part does not hold: 3.02 V is the 40 % point and     *)
(* 3.07 V the 50 % point, so the halfway voltage gives 45 %.               *)
(***************************************************************************)
Millivolts(mv) == [n |-> mv, d |-> 1]

Converted == calls = 1

C18_Halfway55 ==
    Converted =>
        /\ voltage = Millivolts(3800) => battery_percent = 100
        /\ voltage.n <= 2700 * voltage.d => battery_percent = 0
        /\ voltage = Millivolts(3045) => battery_percent = 55

C18_Halfway45 ==
    Converted =>
        /\ voltage = Millivolts(3800) => battery_percent = 100
        /\ voltage.n <= 2700 * voltage.d => battery_percent = 0
        /\ voltage = Millivolts(3045) => battery_percent = 45

C18_Witness ==
    /\ Converted
    /\ voltage = Millivolts(3045)
    /\ battery_percent = 45


(***************************************************************************)
(* C19  battery_get_percent always returns an integer in 0..100: the       *)
(* stored percentage is 0 until the first sample completes (the 256th      *)
(* timer call), it is always within 0..100 whatever the voltage (above,    *)
(* inside or below the curve), and every call of battery_get_percent       *)
(* returns the stored percentage, the value the last sample wrote.         *)
(***************************************************************************)
Percent == 0 .. 100

C19_PercentInRange ==
    /\ [](battery_percent \in Percent)
    /\ [](calls < UINT8 => battery_percent = 0)
    /\ [](retval.fn = "battery_get_percent" => retval.val \in Percent)
    /\ [][retval' # retval =>
            /\ retval'.fn = "battery_get_percent"
            /\ retval'.val = battery_percent
            /\ UNCHANGED battery_percent]_vars

C19_Witness ==
    /\ retval = [fn |-> "battery_get_percent", val |-> 16]
    /\ battery_percent = 16
    /\ count = 1


(***************************************************************************)
(* C20  Travelling mean: count starts at 0, goes up by 1 per sample and    *)
(* never exceeds 10 (it is the number of samples, capped at 10); a sample  *)
(* v makes mean (mean * count + v) / (count + 1) with the count before the *)
(* update.  So a sample of 1 blended into a fresh or a 1-valued mean       *)
(* leaves the mean exactly 1 (the constant 1 gives mean 1 from the first   *)
(* sample on), and once count is 10 a sample v moves the mean by exactly   *)
(* (v - mean) / 11.                                                        *)
(***************************************************************************)
One == [n |-> 1, d |-> 1]

Capacity == RING_BUFFER_LENGTH - 1

\* pushes a step makes on a ring, from its tail before and after
Pushes(before, after) ==
    (after.tail + RING_BUFFER_LENGTH - before.tail) % RING_BUFFER_LENGTH

C21_CallerDiscipline ==
    [][ /\ tx'.tail # tx.tail => RingCount(tx) < Capacity
        /\ tx'.head # tx.head => RingCount(tx) > 0
        /\ (pc = "rx_loop" /\ pc' = "rx_pop") => RingCount(rx) > 0
        /\ rx'.tail # rx.tail => RingCount(rx) + Pushes(rx, rx') <= Capacity
      ]_vars


(***************************************************************************)
(* C22  Single producer, single consumer: the receive ring is written only *)
(* by the handler and read only by the foreground; the transmit ring is    *)
(* written only by the foreground and read only by a send the interrupt    *)
(* triggers; no ring index is written by two execution contexts.           *)
(* As stated the third part does not hold: the transmit ring is read by    *)
(* ble_flush_tx, which runs in the foreground and never in the handler.    *)
(***************************************************************************)
ByForeground == Foreground /\ ~SWI2_IRQHandler

ByHandler == SWI2_IRQHandler /\ ~Foreground

C22_TxReadByInterrupt ==
    [][ /\ rx'.tail # rx.tail => ByHandler
        /\ rx'.head # rx.head => ByForeground
        /\ tx'.tail # tx.tail => ByForeground
        /\ tx'.head # tx.head => ByHandler
      ]_vars

C22_TxReadByForeground ==
    [][ /\ rx'.tail # rx.tail => ByHandler
        /\ rx'.head # rx.head => ByForeground
        /\ tx'.tail # tx.tail => ByForeground
        /\ tx'.head # tx.head => ByForeground
      ]_vars

\* every index has moved: a byte went through each ring
C22_Witness ==
    /\ rx.head = 1
    /\ rx.tail = 2
    /\ tx.head = 1
    /\ tx.tail = 2


(***************************************************************************)
(* C23  Connection state is changed only by the handler: no step of        *)
(* ble_flush_tx, ble_rfcomm_rx, ble_rfcomm_tx or ble_rfcomm_is_rx_pending  *)
(* changes the connection handle, the advertising or negotiated_mtu; the   *)
(* handle and the advertising change only in the connect and disconnect    *)
(* cases of the handler, negotiated_mtu only in the MTU-exchange case.     *)
(***************************************************************************)
C23_ConnStateOnlyByHandler ==
    [][ /\ Foreground => UNCHANGED <<connection, advertising, negotiated_mtu>>
        /\ connection' # connection => EvtConnected \/ EvtDisconnected
        /\ advertising' # advertising => EvtConnected \/ EvtDisconnected
        /\ negotiated_mtu' # negotiated_mtu => EvtExchangeMtuRequest
      ]_vars

\* on a link with an exchanged MTU every facade function has run
C23_Witness ==
    /\ Connected
    /\ negotiated_mtu = 5
    /\ retval.fn = "ble_rfcomm_is_rx_pending"
    /\ rx.head = 1
    /\ tx.head = 1
    /\ tx.tail = 2


(***************************************************************************)
(* C24  Frame buffer bound in ble_flush_tx: whatever MTU the peer asks for *)
(* (values below 3 included) and whatever the transmit ring holds, the     *)
(* bytes one flush call pops into out_buffer never exceed its size         *)
(* MAX_MTU_LENGTH, and negotiated_mtu never exceeds MAX_MTU_LENGTH - 3.    *)
(***************************************************************************)
C24_FrameFitsBuffer ==
    /\ Len(out_buffer) <= MAX_MTU_LENGTH
    /\ negotiated_mtu <= MAX_MTU_LENGTH - 3


(***************************************************************************)
(* C25  Ring indices are in range whenever the other context can observe   *)
(* them: with ring_pop done in the steps the code performs (store head + 1 *)
(* then reset it to 0 if it equals the array size), at every point where   *)
(* the handler can preempt the foreground the receive ring's head and tail *)
(* are array indices, so the handler's ring_full check is exact: it        *)
(* answers true exactly when the ring holds capacity-1 unread bytes.       *)
(***************************************************************************)
C25_IndicesInRange ==
    /\ rx.head \in RingIndex
    /\ rx.tail \in RingIndex
    /\ ring_full(rx) <=> (RingCount(rx) = Capacity)


(***************************************************************************)
(* SpecDriverLive: SpecDriver with the foreground running: whenever the    *)
(* function the foreground is in can take its next step, it takes it.      *)
(* Nothing is assumed about when the application calls a function or when  *)
(* the radio delivers an event.  sd_app_evt_wait returns once an interrupt *)
(* has run since it last returned, and sd_ble_gatts_hvx answers            *)
(* NRF_ERROR_RESOURCES at most MaxRetry times in a row.                    *)
(***************************************************************************)
ForegroundRuns ==
    /\ WF_vars(IsRxPending)
    /\ WF_vars(FlushCheck)
    /\ WF_vars(FlushLoop)
    /\ WF_vars(FlushSend)
    /\ WF_vars(RxLoop)
    /\ WF_vars(RxPop)
    /\ WF_vars(RxWait)
    /\ WF_vars(RxSleep)
    /\ WF_vars(TxLoop)
    /\ WF_vars(TxPush)

SpecDriverLive == SpecDriver /\ ForegroundRuns

(***************************************************************************)
(* C26  No lost wake-up in ble_rfcomm_rx: once the receive ring holds a    *)
(* byte while ble_rfcomm_rx is waiting (in its loop, in the flush it       *)
(* calls, between its check that both rings are empty and                  *)
(* sd_app_evt_wait, or inside sd_app_evt_wait), the call eventually        *)
(* returns a byte, unless an assertion stops the firmware first.           *)
(***************************************************************************)
InRx ==
    \/ pc \in {"rx_loop", "rx_wait", "rx_sleep"}
    \/ pc \in {"fl_check", "fl_loop", "fl_send"} /\ ret = "rx_wait"

RxReturned == pc = "idle" /\ retval.fn = "ble_rfcomm_rx"

C26_NoLostWakeup ==
    (InRx /\ ~ring_empty(rx)) ~> (RxReturned \/ halted)

\* a byte arrived between the check of line 167 and sd_app_evt_wait
C26_Witness ==
    /\ pc = "rx_sleep"
    /\ ~ring_empty(rx)
    /\ evt_latch
    /\ ~halted


(***************************************************************************)
(* SpecSpin: ble_rfcomm_tx called again and again with the foreground      *)
(* running, interleaved with the connection events: the transmit ring is   *)
(* drained only by the flush calls ble_rfcomm_tx makes when it finds the   *)
(* ring full.                                                              *)
(***************************************************************************)
NextSpin ==
    \/ CallTx
    \/ FlushCheck
    \/ FlushLoop
    \/ FlushSend
    \/ TxLoop
    \/ TxPush
    \/ EvtConnectedFrom(TxConnHandles)
    \/ EvtDisconnected
    \/ EvtExchangeMtuRequestFrom(TxClientMtus)

SpecSpin == Init /\ [][NextSpin]_vars /\ ForegroundRuns

(***************************************************************************)
(* C27  ble_rfcomm_tx terminates for every input length and connection     *)
(* state when NRF_ERROR_RESOURCES is not answered forever: a flush call    *)
(* made because the transmit ring is full returns with at least one byte   *)
(* removed from the ring, so the ring is no longer full; each turn of the  *)
(* loop then pushes the next byte of the input once, behind the bytes the  *)
(* ring holds; the call returns only when no byte is left, and it does     *)
(* return unless a failed assertion stops the firmware first.              *)
(***************************************************************************)
InTx ==
    \/ pc \in {"tx_loop", "tx_full"}
    \/ pc \in {"fl_check", "fl_loop", "fl_send"} /\ ret = "tx_full"

C27_TxTerminates ==
    /\ InTx ~> (pc = "idle" \/ halted)
    /\ [][ /\ (pc = "fl_send" /\ pc' = "tx_full") =>
                 /\ RingCount(tx') < Capacity
                 /\ Len(fl_pre) - RingCount(tx') >= 1
           /\ (pc = "tx_full" /\ pc' = "tx_loop") =>
                 /\ sz' = sz - 1
                 /\ RingContents(tx') = Append(RingContents(tx), tx_written)
           /\ (pc = "tx_loop" /\ pc' = "idle") => sz = 0
         ]_vars

\* a flush call made on a full ring has returned into the spin
C27_Witness ==
    /\ pc = "tx_full"
    /\ fl_state = "returned"
    /\ RingCount(tx) < Capacity
    /\ sz > 0


AtMost(v, w) == v.n * w.d <= w.n * v.d

C29_MonotoneAndExact ==
    Converted =>
        /\ \A w \in Voltages :
              /\ AtMost(w, voltage) =>
                    battery_voltage_to_percent(w) <= battery_percent
              /\ AtMost(voltage, w) =>
                    battery_percent <= battery_voltage_to_percent(w)
        /\ \A k \in CurveIndex :
              voltage = Millivolts(battery_discharge_curve(k)) =>
                    battery_percent = (10 - k) * 10

\* the voltage of curve[9] gives 10 %
C29_Witness ==
    /\ Converted
    /\ voltage = Millivolts(battery_discharge_curve(9))
    /\ battery_percent = 10

=============================================================================
